---- MODULE Spec2Model ----
(***************************************************************************)
(* Batch ingestion drivers of the image asset manager:                     *)
(*   zip_uploader.process_zip_upload          (archive, command line)      *)
(*   bulk_upload_tab.process_bulk_upload      (archive, UI)                *)
(*   upload_csv_to_db.process_csv_direct_upload + main (flat directory)    *)
(* together with the backend's upload endpoint that creates the records.   *)
(* Three further specifications share the module: SpecBackend (the HTTP    *)
(* endpoints of backend/src/main.py over the table and the file stores),   *)
(* SpecNorm (the metadata normalisation of one CSV row), SpecMiro (the     *)
(* semaphore-limited S3 uploads of the whiteboard scripts), SpecTagger     *)
(* (process_image of the tagging script over its CSV), SpecBoard           *)
(* (create_board_from_csv of the whiteboard script, board after board)     *)
(* and SpecSearch (the search tab of the UI under two sessions).           *)
(* Paths are sequences of segments below the filesystem root; a driver is  *)
(* run MaxRuns times over the same input.  process_zip_upload is called    *)
(* as main calls it by default, with csv_filename = None (auto-detect).    *)
(***************************************************************************)
EXTENDS Integers, Sequences, FiniteSets, TLC

\* ------------------------------------------------------------------ bounds
MaxRows == 2
MaxRuns == 2

\* ------------------------------------------------------------------- paths
\* the directory tempfile.mkdtemp() returns, and the directory above it
TempParent == <<"tmp">>
temp_dir == TempParent \o <<"T">>
\* images_base_dir of the flat-directory script
images_base_dir == <<"proj", "resources", "nsfw_data">>
\* no path (resolution never happened)
NoPath == <<>>

RelPath(segs) == [kind |-> "rel", segs |-> segs]

\* the declared reference_image_path values a CSV row may carry; the last
\* is an empty cell, which pandas reads as float NaN
DeclaredPaths ==
  { RelPath(<<"..", "resources", "nsfw_data", "img.png">>),
    RelPath(<<"img.png">>),
    RelPath(<<"..", "..", "img.png">>),
    RelPath(<<"missing.png">>),
    [kind |-> "nan", segs |-> <<>>] }

\* the archives: where the CSV sits (csv_dir, relative to the archive root)
\* and the image files the archive holds
Layout(dir, files) == [csv_dir |-> dir, files |-> files]

ArchiveLayouts ==
  { Layout(<<>>, {}),
    Layout(<<>>, { <<"resources", "nsfw_data", "img.png">> }),
    Layout(<<"sub">>, { <<"resources", "nsfw_data", "img.png">> }),
    Layout(<<>>, { <<"resources", "nsfw_data", "a", "img.png">>,
                   <<"resources", "nsfw_data", "b", "img.png">> }),
    Layout(<<"sub">>, { <<"sub", "img.png">>,
                        <<"resources", "nsfw_data", "a", "img.png">> }) }


\* Path.resolve(): collapse ".." segments (no symlinks)
RECURSIVE ResolveAcc(_, _)
ResolveAcc(acc, rest) ==
  IF rest = <<>> THEN acc
  ELSE LET s == Head(rest) IN
       ResolveAcc(IF s = ".."
                    THEN (IF acc = <<>> THEN <<>> ELSE SubSeq(acc, 1, Len(acc) - 1))
                    ELSE Append(acc, s),
                  Tail(rest))

Resolve(segs) == ResolveAcc(<<>>, segs)

\* pathlib's  base / declared : an absolute right operand replaces the base
Join(base, p) == IF p.kind = "abs" THEN p.segs ELSE base \o p.segs

\* Path(p).name
Name(segs) == IF segs = <<>> THEN "" ELSE segs[Len(segs)]

\* str.startswith('../')
StartsWithEscape(p) == p.kind = "rel" /\ Len(p.segs) > 1 /\ p.segs[1] = ".."

\* image_path.replace('../', '', 1) on a path that starts with '../'
StripEscape(p) == Tail(p.segs)

IsPrefix(d, f) == Len(d) < Len(f) /\ SubSeq(f, 1, Len(d)) = d

\* the files on disk while an archive with these contents is extracted;
\* one file exists outside any extraction directory
Disk(in) ==
  { TempParent \o <<"img.png">> }
    \cup { temp_dir \o f : f \in in.files }
    \cup { temp_dir \o in.csv_dir \o <<"data.csv">> }

\* the files below images_base_dir for the flat-directory script
FlatDisk(in) ==
  { images_base_dir \o <<Name(f)>> : f \in in.files }

Exists(disk, path) == path \in disk
DirExists(disk, d) == \E f \in disk : IsPrefix(d, f)

search_dir == temp_dir \o <<"resources", "nsfw_data">>

\* search_dir.rglob(filename): every file below the directory with that name
rglob(disk, dir, filename) ==
  { f \in disk : IsPrefix(dir, f) /\ Name(f) = filename }

\* the orders in which the filesystem may list a set of files
Listings(files) ==
  { ls \in [1..Cardinality(files) -> files] :
      \A i, j \in 1..Cardinality(files) : ls[i] = ls[j] => i = j }

\* list(...)[0]: the match the directory listing yields first
First(ls, matches) ==
  LET k == CHOOSE i \in 1..Len(ls) :
             /\ temp_dir \o ls[i] \in matches
             /\ \A j \in 1..(i - 1) : temp_dir \o ls[j] \notin matches
  IN temp_dir \o ls[k]

\* ------------------------------------------------------------------ inputs
RowSeqs(n) ==
  { [i \in 1..n |-> [reference_image_name |-> <<"ref", i>>,
                     reference_image_path |-> ps[i]]] :
      ps \in [1..n -> DeclaredPaths] }

FatalInput(k) ==
  [kind |-> k, csv_dir |-> <<>>, files |-> {}, rows |-> <<>>]

OkInputs ==
  UNION { { [kind |-> "ok", csv_dir |-> lay.csv_dir, files |-> lay.files,
             rows |-> rows] : lay \in ArchiveLayouts, rows \in RowSeqs(n) } :
          n \in 0..MaxRows }

\* corrupt: not a readable zip; nocsv: no *.csv in the archive (or the CSV
\* path does not exist); unparseable: pandas cannot read the CSV
ArchiveInputs ==
  OkInputs \cup { FatalInput("corrupt"), FatalInput("nocsv"), FatalInput("unparseable") }

\* the flat-directory script sees the image names only
CsvInputs ==
  { in \in OkInputs : in.csv_dir = <<>> /\ Cardinality(in.files) <= 1 }
    \cup { FatalInput("nocsv"), FatalInput("unparseable"), FatalInput("backend_down") }

\* what happens to one POST /api/upload
\*   ok        the backend stored the bytes and committed a record (200)
\*   rejected  the backend answered 500
\*   exception requests raised (connection error, timeout)
UploadOutcomes == { "ok", "rejected", "exception" }

\* ------------------------------------------------------------------- state
VARIABLES
  driver,      \* "zip" | "bulk" | "csv"
  input,       \* the archive / CSV the driver is run on
  pc,          \* position of the running invocation
  runs,        \* finished invocations
  tmpdirs,     \* extraction directories that exist on disk (by invocation)
  listing,     \* order in which the extracted tree lists its files
  total_rows,  \* len(df)
  idx,         \* 1-based number of the next row
  successful,
  failed,
  errors,      \* failure entries in the order recorded
  rowlog,      \* what the loop did for each row it processed
  ret,         \* what the invocation hands to its caller
  store,       \* image_assets table of the backend
  next_id,     \* autoincrement counter
  history      \* one entry per finished invocation

\* the backend service on its own (main.py), driven by single requests
VARIABLES
  USE_LOCAL_STORAGE,  \* configuration read at start-up
  addressing_style,   \* how the S3 client writes presigned URLs
  image_assets,       \* rows of the image_assets table
  local_files,        \* files under LOCAL_UPLOAD_DIR
  s3_objects,         \* keys held by the bucket
  clock,              \* wall clock, in seconds
  http_response       \* answer to the latest request

\* the row normaliser of the three drivers, applied to one CSV row
VARIABLES
  norm_driver,        \* whose loop body reads the row
  cells,              \* the row's optional metadata cells
  sent,               \* the metadata handed to the upload request
  norm_record         \* the metadata columns of the record the upload created

\* the S3 upload step of the whiteboard scripts
VARIABLES
  max_concurrent_uploads,
  semaphore,          \* permits left in asyncio.Semaphore
  task_pc,            \* position of each limited_upload task
  stats               \* uploaded_images / failed_images

\* the tagging script: process_image over the CSV it keeps
VARIABLES
  parse_mode,         \* "tags" | "description"
  num_requests,       \* requests per image
  csv_file,           \* the rows of the CSV file
  pi_pc,              \* position of the process_image call
  pi_image,           \* its image_path
  request_num,        \* loop variable of the request loop
  new_rows,           \* rows collected by the request loop
  pi_ret,             \* what the call returned
  api_requests,       \* vision requests the call has sent
  api_raised,         \* evaluate_image raised in the call
  csv_before,         \* the CSV as the call found it
  calls               \* calls made so far

\* the whiteboard script: create_board_from_csv on one MiroCSVUploader
VARIABLES
  board_pc,           \* position of the create_board_from_csv call
  board_layout,       \* its layout argument
  organized_data,     \* what organize_csv_images returned
  board_created,      \* create_miro_board succeeded
  attempted,          \* entries of organized_data handed to an S3 upload
  csv_stats,          \* self.stats of the uploader
  board_ret,          \* what the call returned
  boards              \* calls made so far

\* the search tab of the UI: one module-level cache, one gallery per session
VARIABLES
  search_results_cache,  \* _search_results_cache: temp file path -> asset
  search_pc,             \* position of each session's search_images call
  assets_left,           \* assets the call has still to download
  image_paths,           \* paths the call has collected, with their assets
  gallery,               \* what each session's gallery shows
  next_temp,             \* names tempfile has given out
  selected,              \* the last on_image_select call and what it found
  searches               \* searches started so far

ingest_vars == << driver, input, pc, runs, tmpdirs, listing, total_rows, idx, successful,
                  failed, errors, rowlog, ret, store, next_id, history >>
backend_vars == << USE_LOCAL_STORAGE, addressing_style, image_assets, local_files,
                   s3_objects, clock, http_response >>
norm_vars == << norm_driver, cells, sent, norm_record >>
miro_vars == << max_concurrent_uploads, semaphore, task_pc, stats >>
tagger_vars == << parse_mode, num_requests, csv_file, pi_pc, pi_image, request_num,
                  new_rows, pi_ret, api_requests, api_raised, csv_before, calls >>
board_vars == << board_pc, board_layout, organized_data, board_created, attempted,
                 csv_stats, board_ret, boards >>
ui_vars == << search_results_cache, search_pc, assets_left, image_paths, gallery,
              next_temp, selected, searches >>

vars == << ingest_vars, backend_vars, norm_vars, miro_vars, tagger_vars,
          board_vars, ui_vars >>

\* ------------------------------------------------ backend service (main.py)
\* the table holds at most MaxAssets rows, ids stay in 1..MaxAssets
MaxAssets == 2
\* the wall clock runs through the seconds 0..MaxClock
MaxClock == 1

\* a nullable column or an optional parameter: None, or one value
None == {}
Some(x) == { x }

Filenames == { "a.png" }

\* query parameters of POST /api/upload that the model carries
UploadMetadata ==
  { [angle_1 |-> None, action_1 |-> None],
    [angle_1 |-> Some("front"), action_1 |-> Some("walk")] }

\* what can go wrong inside a request: the file store or the database raises
Faults == { "none", "storage", "database" }

\* f"{timestamp}_{filename}", the timestamp has a resolution of one second
Timestamped(t, filename) == << t, filename >>

\* Path(LOCAL_UPLOAD_DIR) / filename
LocalPath(t, filename) == [dir |-> "uploads/images", name |-> Timestamped(t, filename)]

\* f"{self.s3_prefix}{timestamp}_{filename}"; lead is text in front of the prefix
S3Key(t, filename) == [lead |-> "", prefix |-> "nsfw_assets/", name |-> Timestamped(t, filename)]

\* a presigned URL, cut at the bucket name and at the key
generate_presigned_url(style, key) ==
  IF style = "virtual"
    THEN [before |-> "https://", between |-> ".s3.ap-northeast-2.amazonaws.com/",
          key |-> key, query |-> "?X-Amz-Signature"]
    ELSE [before |-> "https://s3.ap-northeast-2.amazonaws.com/", between |-> "/",
          key |-> key, query |-> "?X-Amz-Signature"]

\* str.lstrip('/') on the texts that occur
lstrip(text) == IF text = "/" THEN "" ELSE text

\* parts[1].split('?')[0].lstrip('/') where parts = s3_url.split(bucket_name);
\* None when s3_url is None (the membership test raises)
extract_s3_key_from_url(s3_url) ==
  { [url.key EXCEPT !.lead = lstrip(url.between)] : url \in s3_url }

\* S3Manager.upload_file_bytes: the URL, or None after any exception
upload_file_bytes(objects, style, t, filename, fault) ==
  IF fault = "storage"
    THEN [s3_url |-> None, objects |-> objects]
    ELSE [s3_url |-> Some(generate_presigned_url(style, S3Key(t, filename))),
          objects |-> objects \cup { S3Key(t, filename) }]

\* S3Manager.delete_file: False after any exception; deleting a key the
\* bucket does not hold succeeds without effect
delete_file(objects, s3_url, fault) ==
  LET s3_key == extract_s3_key_from_url(s3_url) IN
  IF s3_key = None \/ fault = "storage"
    THEN [ok |-> FALSE, objects |-> objects]
    ELSE [ok |-> TRUE, objects |-> objects \ s3_key]

\* the next rowid of the table
NextAssetId(assets) ==
  IF assets = {} THEN 1
  ELSE (CHOOSE m \in { r.id : r \in assets } : \A r \in assets : r.id <= m) + 1

Lookup(assets, id) == { r \in assets : r.id = id }

\* variant: the s3_url fallback of the answer is written into the record too
NewImageAsset_url_fallback(id, t, md, s3_url, local_file_path, filename) ==
  [ id |-> id, created_at |-> t, deleted_at |-> None,
    angle_1 |-> md.angle_1, action_1 |-> md.action_1,
    s3_url |-> IF s3_url # None THEN s3_url ELSE local_file_path,
    local_file_path |-> local_file_path,
    original_filename |-> filename ]

\* ImageAsset(...) as upload_image_asset builds it
NewImageAsset(id, t, md, s3_url, local_file_path, filename) ==
  [ id |-> id, created_at |-> t, deleted_at |-> None,
    angle_1 |-> md.angle_1, action_1 |-> md.action_1,
    s3_url |-> s3_url, local_file_path |-> local_file_path,
    original_filename |-> filename ]

Response(op, status, id) ==
  [ op |-> op, status |-> status, asset_id |-> id, hard_delete |-> FALSE,
    query |-> [include_deleted |-> FALSE, angle_1 |-> "", limit |-> 0, offset |-> 0],
    total |-> 0, results |-> <<>>, asset |-> None,
    actions |-> {}, addressed |-> None ]

NoResponse == Response("none", 0, 0)

\* the configuration is fixed, the stores are empty
BackendOff ==
  /\ USE_LOCAL_STORAGE = TRUE
  /\ addressing_style = "virtual"
  /\ image_assets = {}
  /\ local_files = {}
  /\ s3_objects = {}
  /\ clock = 0
  /\ http_response = NoResponse

\* --- POST /api/upload
\* where upload_image_asset puts the bytes, and the two locators it records
StoreFile(filename, fault) ==
  IF USE_LOCAL_STORAGE
    THEN [ stored |-> fault # "storage",
           s3_url |-> None,
           local_file_path |-> Some(LocalPath(clock, filename)),
           files |-> IF fault = "storage" THEN local_files
                     ELSE local_files \cup { LocalPath(clock, filename) },
           objects |-> s3_objects ]
    ELSE LET up == upload_file_bytes(s3_objects, addressing_style, clock, filename, fault) IN
         [ stored |-> up.s3_url # None,
           s3_url |-> up.s3_url,
           local_file_path |-> None,
           files |-> local_files,
           objects |-> up.objects ]

\* variant: an upload whose file name a soft-deleted row already carries
\* brings that row back instead of adding one
api_upload_revives ==
  /\ http_response = NoResponse
  /\ NextAssetId(image_assets) <= MaxAssets
  /\ \E filename \in Filenames, md \in UploadMetadata, fault \in Faults :
       LET st == StoreFile(filename, fault)
           id == NextAssetId(image_assets)
           asset == NewImageAsset(id, clock, md, st.s3_url, st.local_file_path, filename)
           old == { r \in image_assets :
                      r.original_filename = filename /\ r.deleted_at # None }
       IN
       /\ local_files' = st.files
       /\ s3_objects' = st.objects
       /\ IF st.stored /\ fault = "none"
            THEN /\ image_assets' =
                      IF old = {} THEN image_assets \cup { asset }
                      ELSE (image_assets \ old) \cup
                             { [r EXCEPT !.deleted_at = None] : r \in old }
                 /\ http_response' = [Response("upload", 200, id) EXCEPT !.asset = Some(asset)]
            ELSE /\ image_assets' = image_assets
                 /\ http_response' = Response("upload", 500, 0)
  /\ UNCHANGED << USE_LOCAL_STORAGE, addressing_style, clock >>
  /\ UNCHANGED << ingest_vars, norm_vars, miro_vars, tagger_vars, board_vars, ui_vars >>

api_upload ==
  /\ http_response = NoResponse
  /\ NextAssetId(image_assets) <= MaxAssets
  /\ \E filename \in Filenames, md \in UploadMetadata, fault \in Faults :
       LET st == StoreFile(filename, fault)
           id == NextAssetId(image_assets)
           asset == NewImageAsset(id, clock, md, st.s3_url, st.local_file_path, filename)
       IN
       /\ local_files' = st.files
       /\ s3_objects' = st.objects
       /\ IF st.stored /\ fault = "none"
            THEN /\ image_assets' = image_assets \cup { asset }
                 /\ http_response' = [Response("upload", 200, id) EXCEPT !.asset = Some(asset)]
            ELSE /\ image_assets' = image_assets
                 /\ http_response' = Response("upload", 500, 0)
  /\ UNCHANGED << USE_LOCAL_STORAGE, addressing_style, clock >>
  /\ UNCHANGED << ingest_vars, norm_vars, miro_vars, tagger_vars, board_vars, ui_vars >>

\* --- GET /api/search
\* variant: the deleted_at filter is left out
Matches_no_deleted_filter(assets, q) ==
  { r \in assets : q.angle_1 # "" => r.angle_1 = Some(q.angle_1) }

\* the rows the filters of search_image_assets keep
Matches(assets, q) ==
  { r \in assets :
      /\ q.include_deleted \/ r.deleted_at = None
      /\ q.angle_1 # "" => r.angle_1 = Some(q.angle_1) }

\* rows in the order the table lists them
RECURSIVE ById(_)
ById(rows) ==
  IF rows = {} THEN <<>>
  ELSE LET m == CHOOSE r \in rows : \A q \in rows : r.id <= q.id
       IN << m >> \o ById(rows \ { m })

\* query.offset(offset).limit(limit).all()
Page(rows, offset, limit) ==
  LET all == ById(rows)
      last == IF offset + limit < Len(all) THEN offset + limit ELSE Len(all)
  IN SubSeq(all, offset + 1, last)

search_image_assets ==
  /\ http_response = NoResponse
  /\ \E q \in [ include_deleted : BOOLEAN, angle_1 : { "", "front" },
                 limit : { 1, 100 }, offset : { 0, 1 } ] :
       http_response' = [Response("search", 200, 0) EXCEPT
                      !.query = q,
                      !.total = Cardinality(Matches(image_assets, q)),
                      !.results = Page(Matches(image_assets, q), q.offset, q.limit)]
  /\ UNCHANGED << USE_LOCAL_STORAGE, addressing_style, image_assets, local_files,
                  s3_objects, clock >>
  /\ UNCHANGED << ingest_vars, norm_vars, miro_vars, tagger_vars, board_vars, ui_vars >>

\* --- GET /api/download/{asset_id}
\* variant: the deleted_at test is missing
download_status_ignores_deleted(asset) ==
  IF USE_LOCAL_STORAGE /\ asset.local_file_path # None
    THEN IF asset.local_file_path \subseteq local_files THEN 200 ELSE 404
  ELSE IF asset.s3_url # None THEN 307
  ELSE 404

download_status(asset) ==
  IF asset.deleted_at # None THEN 410
  ELSE IF USE_LOCAL_STORAGE /\ asset.local_file_path # None
         THEN IF asset.local_file_path \subseteq local_files THEN 200 ELSE 404
  ELSE IF asset.s3_url # None THEN 307
  ELSE 404

download_image_asset ==
  /\ http_response = NoResponse
  /\ \E asset_id \in 1..MaxAssets :
       LET found == Lookup(image_assets, asset_id) IN
       http_response' = IF found = {}
                     THEN Response("download", 404, asset_id)
                     ELSE [Response("download",
                                    download_status(CHOOSE r \in found : TRUE),
                                    asset_id) EXCEPT !.asset = found]
  /\ UNCHANGED << USE_LOCAL_STORAGE, addressing_style, image_assets, local_files,
                  s3_objects, clock >>
  /\ UNCHANGED << ingest_vars, norm_vars, miro_vars, tagger_vars, board_vars, ui_vars >>

\* --- GET /api/assets/{asset_id}
get_image_asset ==
  /\ http_response = NoResponse
  /\ \E asset_id \in 1..MaxAssets :
       LET found == Lookup(image_assets, asset_id) IN
       http_response' = IF found = {}
                     THEN Response("get", 404, asset_id)
                     ELSE [Response("get", 200, asset_id) EXCEPT !.asset = found]
  /\ UNCHANGED << USE_LOCAL_STORAGE, addressing_style, image_assets, local_files,
                  s3_objects, clock >>
  /\ UNCHANGED << ingest_vars, norm_vars, miro_vars, tagger_vars, board_vars, ui_vars >>

\* --- DELETE /api/assets/{asset_id}
\* variant: the soft delete also forgets where the file is
SoftDeleted_drops_locator(asset, t) ==
  [asset EXCEPT !.deleted_at = Some(t), !.local_file_path = None, !.s3_url = None]

\* asset.deleted_at = datetime.utcnow()
SoftDeleted(asset, t) == [asset EXCEPT !.deleted_at = Some(t)]

delete_image_asset ==
  /\ http_response = NoResponse
  /\ \E asset_id \in 1..MaxAssets, hard_delete \in BOOLEAN, fault \in Faults :
       LET found == Lookup(image_assets, asset_id)
           asset == CHOOSE r \in found : TRUE
           \* addressed: the row the request found, kept for observation
           answer(status) == [Response("delete", status, asset_id) EXCEPT
                                !.hard_delete = hard_delete, !.addressed = found]
       IN
       IF found = {}
         THEN /\ http_response' = answer(404)
              /\ UNCHANGED << image_assets, s3_objects >>
       ELSE IF hard_delete
         THEN IF USE_LOCAL_STORAGE
                \* s3_manager is None: the call raises, the handler answers 500
                THEN /\ http_response' = answer(500)
                     /\ UNCHANGED << image_assets, s3_objects >>
                ELSE /\ s3_objects' = delete_file(s3_objects, asset.s3_url, fault).objects
                     /\ IF fault = "database"
                          THEN /\ http_response' = answer(500)
                               /\ image_assets' = image_assets
                          ELSE /\ http_response' = answer(200)
                               /\ image_assets' = image_assets \ found
       ELSE IF fault = "database"
         THEN /\ http_response' = answer(500)
              /\ UNCHANGED << image_assets, s3_objects >>
         ELSE /\ image_assets' = (image_assets \ found) \cup { SoftDeleted(asset, clock) }
              /\ http_response' = [answer(200) EXCEPT !.asset = Some(SoftDeleted(asset, clock))]
              /\ s3_objects' = s3_objects
  /\ UNCHANGED << USE_LOCAL_STORAGE, addressing_style, local_files, clock >>
  /\ UNCHANGED << ingest_vars, norm_vars, miro_vars, tagger_vars, board_vars, ui_vars >>

\* --- GET /api/metadata/actions
get_unique_actions ==
  /\ http_response = NoResponse
  /\ http_response' = [Response("actions", 200, 0) EXCEPT
                    !.actions = UNION { r.action_1 : r \in image_assets },
                    !.total = Cardinality(UNION { r.action_1 : r \in image_assets })]
  /\ UNCHANGED << USE_LOCAL_STORAGE, addressing_style, image_assets, local_files,
                  s3_objects, clock >>
  /\ UNCHANGED << ingest_vars, norm_vars, miro_vars, tagger_vars, board_vars, ui_vars >>

\* the handler returns: the answer goes out to the client, the service is
\* ready for the next request
send_response ==
  /\ http_response # NoResponse
  /\ http_response' = NoResponse
  /\ UNCHANGED << USE_LOCAL_STORAGE, addressing_style, image_assets, local_files,
                  s3_objects, clock >>
  /\ UNCHANGED << ingest_vars, norm_vars, miro_vars, tagger_vars, board_vars, ui_vars >>

\* a second passes between two requests
tick ==
  /\ http_response = NoResponse
  /\ clock < MaxClock
  /\ clock' = clock + 1
  /\ UNCHANGED << USE_LOCAL_STORAGE, addressing_style, image_assets, local_files,
                  s3_objects, http_response >>
  /\ UNCHANGED << ingest_vars, norm_vars, miro_vars, tagger_vars, board_vars, ui_vars >>

\* --------------------------------------------- row normaliser of the drivers
Fields == { "angle_1", "angle_2", "action_1", "action_2", "action_3", "prompt" }
AngleFields == { "angle_1", "angle_2" }

\* values a Python name can hold here: None, float NaN, or a string (its
\* characters in order)
PyNone == [kind |-> "none", text |-> <<>>]
PyStr(chars) == [kind |-> "str", text |-> chars]

\* a CSV cell as pandas hands it over: its column is missing from the file,
\* it is empty (NaN), or it holds text
MissingColumn == [kind |-> "missing", text |-> <<>>]

\* row.get(column, default)
row_get(cell, default) == IF cell.kind = "missing" THEN default ELSE cell

\* str.strip() on a sequence of characters
RECURSIVE lstrip_chars(_)
lstrip_chars(chars) ==
  IF chars # <<>> /\ Head(chars) = " " THEN lstrip_chars(Tail(chars)) ELSE chars

RECURSIVE rstrip_chars(_)
rstrip_chars(chars) ==
  IF chars # <<>> /\ chars[Len(chars)] = " "
    THEN rstrip_chars(SubSeq(chars, 1, Len(chars) - 1))
    ELSE chars

strip(chars) == rstrip_chars(lstrip_chars(chars))

\* str(x)
str(v) ==
  CASE v.kind = "none" -> << "N", "o", "n", "e" >>
    [] v.kind = "nan" -> << "n", "a", "n" >>
    [] OTHER -> v.text

\* pd.notna(x)
notna(v) == v.kind = "str"

\* truth value of x in "if x:"; NaN is a non-zero float
truthy(v) == v.kind = "nan" \/ (v.kind = "str" /\ v.text # <<>>)

\* x if pd.notna(x) and str(x).strip() else None
none_if_blank(v) == IF notna(v) /\ strip(str(v)) # <<>> THEN v ELSE PyNone

\* what requests puts on the wire for a dict value: None is dropped, any
\* other value is written as str(value)
Absent == [kind |-> "absent", text |-> <<>>]
encoded(v) == IF v.kind = "none" THEN Absent ELSE PyStr(str(v))

\* "if x: params[...] = x"
encoded_if_truthy(v) == IF truthy(v) THEN encoded(v) ELSE Absent

NotSent == [done |-> FALSE, fields |-> [f \in Fields |-> Absent]]

\* where the driver puts the metadata dict: data= is the multipart form body,
\* params= is the query string of the URL
channel(drv) == IF drv = "zip" THEN "form" ELSE "query"

\* what a parameter declared Optional[str] = Query(None) is bound to: the
\* value the query string carries, None when it carries none; form fields
\* of the body are not looked at
query_param(chan, v) == IF chan = "query" /\ v.kind = "str" THEN v ELSE PyNone

NoRecord == [done |-> FALSE, fields |-> [f \in Fields |-> PyNone]]

NormOff ==
  /\ norm_driver = "none"
  /\ cells = [f \in Fields |-> MissingColumn]
  /\ sent = NotSent
  /\ norm_record = NoRecord

\* zip_uploader: angles as read, actions normalised, the prompt is not read
zip_read_row ==
  /\ norm_driver = "zip" /\ ~sent.done
  /\ sent' = [done |-> TRUE,
              fields |-> [f \in Fields |->
                 CASE f \in AngleFields -> encoded(row_get(cells[f], PyStr(<<>>)))
                   [] f = "prompt" -> Absent
                   [] OTHER -> encoded_if_truthy(none_if_blank(row_get(cells[f], PyNone)))]]
  /\ UNCHANGED << norm_driver, cells, norm_record >>
  /\ UNCHANGED << ingest_vars, backend_vars, miro_vars, tagger_vars, board_vars, ui_vars >>

\* bulk_upload_tab: angles as read, actions and prompt normalised
bulk_read_row ==
  /\ norm_driver = "bulk" /\ ~sent.done
  /\ sent' = [done |-> TRUE,
              fields |-> [f \in Fields |->
                 IF f \in AngleFields
                   THEN encoded(row_get(cells[f], PyStr(<<>>)))
                   ELSE encoded_if_truthy(none_if_blank(row_get(cells[f], PyNone)))]]
  /\ UNCHANGED << norm_driver, cells, norm_record >>
  /\ UNCHANGED << ingest_vars, backend_vars, miro_vars, tagger_vars, board_vars, ui_vars >>

\* upload_csv_to_db: every field is sent only if truthy
csv_read_row ==
  /\ norm_driver = "csv" /\ ~sent.done
  /\ sent' = [done |-> TRUE,
              fields |-> [f \in Fields |->
                 IF f \in AngleFields
                   THEN encoded_if_truthy(row_get(cells[f], PyStr(<<>>)))
                   ELSE encoded_if_truthy(none_if_blank(row_get(cells[f], PyNone)))]]
  /\ UNCHANGED << norm_driver, cells, norm_record >>
  /\ UNCHANGED << ingest_vars, backend_vars, miro_vars, tagger_vars, board_vars, ui_vars >>

\* the backend takes the request: upload_image_asset binds its parameters
\* and writes them into the columns of the new record
norm_upload_image_asset ==
  /\ sent.done /\ ~norm_record.done
  /\ norm_record' = [done |-> TRUE,
                     fields |-> [f \in Fields |->
                        query_param(channel(norm_driver), sent.fields[f])]]
  /\ UNCHANGED << norm_driver, cells, sent >>
  /\ UNCHANGED << ingest_vars, backend_vars, miro_vars, tagger_vars, board_vars, ui_vars >>

\* ------------------------------ S3 upload step of the whiteboard scripts
MaxImages == 4
MaxPermits == 2

Images == 1..MaxImages

NoStats == [uploaded_images |-> 0, failed_images |-> 0]

MiroOff ==
  /\ max_concurrent_uploads = 1
  /\ semaphore = 0
  /\ task_pc = [i \in Images |-> "done"]
  /\ stats = NoStats

InFlight == { i \in Images : task_pc[i] = "uploading" }

\* variant: the task enters the block without waiting for a permit
limited_upload_acquire_no_wait(i) ==
  /\ task_pc[i] = "gathered"
  /\ semaphore' = IF semaphore > 0 THEN semaphore - 1 ELSE semaphore
  /\ task_pc' = [task_pc EXCEPT ![i] = "holding"]
  /\ UNCHANGED << max_concurrent_uploads, stats >>
  /\ UNCHANGED << ingest_vars, backend_vars, norm_vars, tagger_vars, board_vars, ui_vars >>

\* async with semaphore: enter once a permit is free
limited_upload_acquire(i) ==
  /\ task_pc[i] = "gathered"
  /\ semaphore > 0
  /\ semaphore' = semaphore - 1
  /\ task_pc' = [task_pc EXCEPT ![i] = "holding"]
  /\ UNCHANGED << max_concurrent_uploads, stats >>
  /\ UNCHANGED << ingest_vars, backend_vars, norm_vars, tagger_vars, board_vars, ui_vars >>

\* await task: the coroutine starts here; a missing file returns None at
\* once, otherwise s3.upload_file runs in the executor
upload_image_to_s3_async_start(i) ==
  /\ task_pc[i] = "holding"
  /\ \E exists \in BOOLEAN :
       task_pc' = [task_pc EXCEPT ![i] = IF exists THEN "uploading" ELSE "failed"]
  /\ UNCHANGED << max_concurrent_uploads, semaphore, stats >>
  /\ UNCHANGED << ingest_vars, backend_vars, norm_vars, tagger_vars, board_vars, ui_vars >>

\* the executor call returns or raises; the coroutine returns the URL or None
upload_image_to_s3_async_finish(i) ==
  /\ task_pc[i] = "uploading"
  /\ \E ok \in BOOLEAN :
       task_pc' = [task_pc EXCEPT ![i] = IF ok THEN "uploaded" ELSE "failed"]
  /\ UNCHANGED << max_concurrent_uploads, semaphore, stats >>
  /\ UNCHANGED << ingest_vars, backend_vars, norm_vars, tagger_vars, board_vars, ui_vars >>

\* the rest of the block: count the result, leave the block, free the permit
limited_upload_release(i) ==
  /\ task_pc[i] \in { "uploaded", "failed" }
  /\ stats' = IF task_pc[i] = "uploaded"
                THEN [stats EXCEPT !.uploaded_images = @ + 1]
                ELSE [stats EXCEPT !.failed_images = @ + 1]
  /\ semaphore' = semaphore + 1
  /\ task_pc' = [task_pc EXCEPT ![i] = "done"]
  /\ UNCHANGED max_concurrent_uploads
  /\ UNCHANGED << ingest_vars, backend_vars, norm_vars, tagger_vars, board_vars, ui_vars >>

\* ------------------------- tagging script (nsfw_db_miro/main.py, process_image)
MaxCalls == 3
MaxRequests == 2

\* the image files: directory, stem and suffix of their paths
ImagePaths == { [dir |-> <<"nsfw_data">>, stem |-> "a", suffix |-> ".png"],
                [dir |-> <<"nsfw_data">>, stem |-> "b", suffix |-> ".png"] }

\* Path(image_path).name
image_name(p) == << p.stem, p.suffix >>

\* f"{image_name_base}_v{request_num}", or the stem alone for a single
\* request; image_name_base is Path(image_path).stem
reference_name(p, n, request) ==
  IF n > 1 THEN << p.stem >> \o << "_v", request >> ELSE << p.stem >>

\* the header __init__ gives the CSV
columns(mode) ==
  IF mode = "description"
    THEN { "reference_image", "description" }
    ELSE { "reference_image_name", "reference_image_path", "angle_direction_1",
           "angle_direction_2", "action_direction_1" }

\* what _parse_grok_response returns: the three tags, or _empty_tags()
ParsedTags == { [angle_direction_1 |-> {}, angle_direction_2 |-> {},
                 action_direction_1 |-> {}],
                [angle_direction_1 |-> {"above"}, angle_direction_2 |-> {"front"},
                 action_direction_1 |-> {"walking"}] }

tags_row(p, n, request, tags) ==
  [reference_image_name |-> reference_name(p, n, request),
   reference_image_path |-> p,
   tags |-> tags]

\* the values of one column of the frame read from the CSV
column_values(rows, mode, col) ==
  IF col \notin columns(mode) THEN {}
  ELSE CASE col = "reference_image_path" -> { rows[k].reference_image_path : k \in 1..Len(rows) }
         [] col = "reference_image" -> { rows[k].reference_image : k \in 1..Len(rows) }
         [] OTHER -> {}

\* the 'already processed' test at the head of process_image
already_processed(rows, mode, n, p) ==
  IF mode = "tags" /\ n > 1
    THEN p \in column_values(rows, mode, "reference_image_path")
    ELSE image_name(p) \in column_values(rows, mode, "reference_image")

TaggerOff ==
  /\ parse_mode = "tags"
  /\ num_requests = 1
  /\ csv_file = <<>>
  /\ pi_pc = "idle"
  /\ pi_image = [dir |-> <<>>, stem |-> "", suffix |-> ""]
  /\ request_num = 1
  /\ new_rows = <<>>
  /\ pi_ret = FALSE
  /\ api_requests = 0
  /\ api_raised = FALSE
  /\ csv_before = <<>>
  /\ calls = 0

\* process_image up to its first request: read the CSV, test the marker
process_image_begin ==
  /\ pi_pc = "idle" /\ calls < MaxCalls
  /\ \E p \in ImagePaths :
       /\ pi_image' = p
       /\ IF already_processed(csv_file, parse_mode, num_requests, p)
            THEN pi_pc' = "returned" /\ pi_ret' = TRUE
            ELSE pi_pc' = "requesting" /\ pi_ret' = FALSE
  /\ request_num' = 1
  /\ new_rows' = <<>>
  /\ api_requests' = 0
  /\ api_raised' = FALSE
  /\ csv_before' = csv_file
  /\ calls' = calls + 1
  /\ UNCHANGED << parse_mode, num_requests, csv_file >>
  /\ UNCHANGED << ingest_vars, backend_vars, norm_vars, miro_vars, board_vars, ui_vars >>

\* evaluate_image raised: the except clause of process_image returns False
process_image_request_raises ==
  /\ pi_pc = "requesting"
  /\ api_requests' = api_requests + 1
  /\ api_raised' = TRUE
  /\ pi_pc' = "returned"
  /\ pi_ret' = FALSE
  /\ UNCHANGED << parse_mode, num_requests, csv_file, pi_image, request_num,
                  new_rows, csv_before, calls >>
  /\ UNCHANGED << ingest_vars, backend_vars, norm_vars, miro_vars, board_vars, ui_vars >>

\* description mode: one request, one row (the image's name and the parsed
\* description, a text or None), appended at once
process_image_description ==
  /\ pi_pc = "requesting" /\ parse_mode = "description"
  /\ \E d \in { {}, {"text"} } :
       csv_file' = Append(csv_file, [reference_image |-> image_name(pi_image),
                                     description |-> d])
  /\ api_requests' = api_requests + 1
  /\ pi_pc' = "returned"
  /\ pi_ret' = TRUE
  /\ UNCHANGED << parse_mode, num_requests, pi_image, request_num, new_rows,
                  api_raised, csv_before, calls >>
  /\ UNCHANGED << ingest_vars, backend_vars, norm_vars, miro_vars, board_vars, ui_vars >>

\* variant: every row is written to the CSV as soon as its request returned
process_image_tags_row_by_row ==
  /\ pi_pc = "requesting" /\ parse_mode # "description"
  /\ \E t \in ParsedTags :
       LET row == tags_row(pi_image, num_requests, request_num, t) IN
       /\ new_rows' = Append(new_rows, row)
       /\ csv_file' = Append(csv_file, row)
  /\ api_requests' = api_requests + 1
  /\ request_num' = request_num + 1
  /\ IF request_num = num_requests
       THEN pi_pc' = "returned" /\ pi_ret' = TRUE
       ELSE UNCHANGED << pi_pc, pi_ret >>
  /\ UNCHANGED << parse_mode, num_requests, pi_image, api_raised, csv_before, calls >>
  /\ UNCHANGED << ingest_vars, backend_vars, norm_vars, miro_vars, board_vars, ui_vars >>

\* tags mode: one pass of the request loop; after the last pass the collected
\* rows are appended to the CSV and process_image returns True
process_image_tags ==
  /\ pi_pc = "requesting" /\ parse_mode # "description"
  /\ \E t \in ParsedTags :
       LET rows == Append(new_rows, tags_row(pi_image, num_requests, request_num, t)) IN
       /\ new_rows' = rows
       /\ csv_file' = IF request_num = num_requests THEN csv_file \o rows ELSE csv_file
  /\ api_requests' = api_requests + 1
  /\ request_num' = request_num + 1
  /\ IF request_num = num_requests
       THEN pi_pc' = "returned" /\ pi_ret' = TRUE
       ELSE UNCHANGED << pi_pc, pi_ret >>
  /\ UNCHANGED << parse_mode, num_requests, pi_image, api_raised, csv_before, calls >>
  /\ UNCHANGED << ingest_vars, backend_vars, norm_vars, miro_vars, board_vars, ui_vars >>

\* the caller takes the result; the next call may start
process_image_return ==
  /\ pi_pc = "returned"
  /\ pi_pc' = "idle"
  /\ UNCHANGED << parse_mode, num_requests, csv_file, pi_image, request_num, new_rows,
                  pi_ret, api_requests, api_raised, csv_before, calls >>
  /\ UNCHANGED << ingest_vars, backend_vars, norm_vars, miro_vars, board_vars, ui_vars >>

\* ------------------ whiteboard script (miro_csv_uploader, create_board_from_csv)
MaxBoards == 2
MaxCsvRows == 2

\* a row as csv.DictReader hands it over; format is the header of the file,
\* image_cell its column reference_image_path (new) or reference_image (old)
CsvRow(name, angle) ==
  [image_cell |-> name, angle_direction_1 |-> angle,
   angle_direction_2 |-> <<>>, action_direction_1 |-> << "w" >>]

\* the CSV files; a row names an image, an image with a blank before its
\* name and '-' for its angle, a file that is missing, or nothing
CsvFiles ==
  UNION { { [format |-> fmt, rows |-> rows] :
              fmt \in { "new", "old" },
              rows \in [1..n -> { CsvRow(<< "a" >>, << "f" >>),
                                  CsvRow(<< " ", "b" >>, << "-" >>),
                                  CsvRow(<< "m" >>, << "f" >>),
                                  CsvRow(<<>>, << "f" >>) }] } :
          n \in 0..MaxCsvRows }

\* os.path.join(image_directory, reference_image) / the path cell as it is
image_path_of(fmt, name) == IF fmt = "old" THEN << "images", name >> ELSE << name >>
\* os.path.exists: the images a and b are on disk
path_exists(p) == p[Len(p)] \in { << "a" >>, << "b" >> }

\* the tags of one row: '-' is dropped in the new format only
version_of(fmt, row) ==
  LET a1 == strip(row.angle_direction_1)
      a2 == strip(row.angle_direction_2)
      ac == strip(row.action_direction_1)
      keep(t) == t # <<>> /\ (fmt = "old" \/ t # << "-" >>)
  IN [angles |-> (IF keep(a1) THEN << a1 >> ELSE <<>>) \o (IF keep(a2) THEN << a2 >> ELSE <<>>),
      actions |-> IF keep(ac) THEN << ac >> ELSE <<>>]

\* an entry of organized_data (os.path.basename is the last segment)
img_data(p, versions) ==
  [image_path |-> p, reference_image |-> p[Len(p)], versions |-> versions,
   display_label |-> p[Len(p)]]

\* organize_csv_images: one entry per row (old format), or one entry per
\* image path in order of first appearance with its rows as versions (new);
\* a row survives with a name and a file that exists
RECURSIVE organize_acc(_, _, _)
organize_acc(fmt, rows, acc) ==
  IF rows = <<>> THEN acc
  ELSE LET row == Head(rows)
           p == image_path_of(fmt, strip(row.image_cell))
           v == version_of(fmt, row)
           at == { k \in 1..Len(acc) : acc[k].image_path = p }
           valid_row == strip(row.image_cell) # <<>> /\ path_exists(p)
       IN organize_acc(fmt, Tail(rows),
            IF ~valid_row THEN acc
            ELSE IF fmt = "new" /\ at # {}
              THEN [k \in 1..Len(acc) |->
                      IF k \in at THEN [acc[k] EXCEPT !.versions = Append(@, v)] ELSE acc[k]]
              ELSE Append(acc, img_data(p, << v >>)))

\* what organize_csv_images can return over the CSV files
OrganizedResults == { organize_acc(csv.format, csv.rows, <<>>) : csv \in CsvFiles }

\* the key the grouping loop of a layout reads from every entry:
\* img_data['angle_label'], img_data['action_label']
group_key(layout) ==
  CASE layout = "by_angle" -> "angle_label"
    [] layout = "by_action" -> "action_label"
    [] OTHER -> "image_path"

BoardStats0 == [total_images |-> 0, uploaded_images |-> 0, failed_images |-> 0]

BoardOff ==
  /\ board_pc = "idle"
  /\ board_layout = "grid"
  /\ organized_data = <<>>
  /\ board_created = FALSE
  /\ attempted = {}
  /\ csv_stats = BoardStats0
  /\ board_ret = FALSE
  /\ boards = 0

\* create_board_from_csv up to the uploads: read and organise a CSV, set
\* total_images, create the board, enter the layout (whose grouping loop
\* raises KeyError on an entry without the key; the layout returns False)
create_board_from_csv ==
  /\ board_pc = "idle" /\ boards < MaxBoards
  /\ boards' = boards + 1
  /\ attempted' = {}
  /\ \E organized \in OrganizedResults, created \in BOOLEAN,
        layout \in { "grid", "by_angle", "by_action", "other" } :
       /\ board_layout' = layout
       /\ organized_data' = organized
       /\ IF organized = <<>>
            THEN /\ board_pc' = "returned" /\ board_ret' = FALSE
                 /\ board_created' = FALSE
                 /\ UNCHANGED csv_stats
            ELSE /\ csv_stats' = [csv_stats EXCEPT !.total_images = Len(organized)]
                 /\ board_created' = created
                 /\ IF created /\ \A k \in 1..Len(organized) :
                                     group_key(layout) \in DOMAIN organized[k]
                      THEN board_pc' = "uploading" /\ board_ret' = FALSE
                      ELSE board_pc' = "returned" /\ board_ret' = FALSE
  /\ UNCHANGED << ingest_vars, backend_vars, norm_vars, miro_vars, tagger_vars, ui_vars >>

\* one limited_upload task: the S3 upload returns a URL or None, the task
\* counts it
board_limited_upload ==
  /\ board_pc = "uploading"
  /\ \E k \in (1..Len(organized_data)) \ attempted, ok \in BOOLEAN :
       /\ attempted' = attempted \cup { k }
       /\ csv_stats' = IF ok THEN [csv_stats EXCEPT !.uploaded_images = @ + 1]
                       ELSE [csv_stats EXCEPT !.failed_images = @ + 1]
  /\ UNCHANGED << board_pc, board_layout, organized_data, board_created, board_ret, boards >>
  /\ UNCHANGED << ingest_vars, backend_vars, norm_vars, miro_vars, tagger_vars, ui_vars >>

\* gather returned: the board is filled, the layout returns True
upload_layout_completed ==
  /\ board_pc = "uploading"
  /\ attempted = 1..Len(organized_data)
  /\ board_pc' = "returned"
  /\ board_ret' = TRUE
  /\ UNCHANGED << board_layout, organized_data, board_created, attempted, csv_stats, boards >>
  /\ UNCHANGED << ingest_vars, backend_vars, norm_vars, miro_vars, tagger_vars, ui_vars >>

\* batch_process_csvs takes the result and goes on to the next CSV
batch_process_csvs_next ==
  /\ board_pc = "returned"
  /\ board_pc' = "idle"
  /\ UNCHANGED << board_layout, organized_data, board_created, attempted, csv_stats,
                  board_ret, boards >>
  /\ UNCHANGED << ingest_vars, backend_vars, norm_vars, miro_vars, tagger_vars, ui_vars >>

\* ------------------------------------------ search tab (frontend/src/search_tab.py)
MaxSearches == 3
MaxHits == 1

Sessions == { "s1", "s2" }
NoSelection ==
  [session |-> "none", path |-> 0, shown |-> 0, busy |-> FALSE, found |-> FALSE, asset |-> {}]

SearchOff ==
  /\ search_results_cache = << >>
  /\ search_pc = [s \in Sessions |-> "idle"]
  /\ assets_left = [s \in Sessions |-> {}]
  /\ image_paths = [s \in Sessions |-> {}]
  /\ gallery = [s \in Sessions |-> {}]
  /\ next_temp = 1
  /\ selected = NoSelection
  /\ searches = 0

\* search_images up to the downloads: clear the cache, send the search; a
\* failed search or an empty result returns an empty gallery at once
search_images_begin(s) ==
  /\ search_pc[s] = "idle" /\ searches < MaxSearches
  /\ searches' = searches + 1
  /\ search_results_cache' = << >>
  /\ image_paths' = [image_paths EXCEPT ![s] = {}]
  /\ \E ok \in BOOLEAN, assets \in SUBSET (1..MaxHits) :
       IF ok /\ assets # {}
         THEN /\ search_pc' = [search_pc EXCEPT ![s] = "downloading"]
              /\ assets_left' = [assets_left EXCEPT ![s] = assets]
              /\ UNCHANGED gallery
         ELSE /\ gallery' = [gallery EXCEPT ![s] = {}]
              /\ UNCHANGED << search_pc, assets_left >>
  /\ UNCHANGED << next_temp, selected >>
  /\ UNCHANGED << ingest_vars, backend_vars, norm_vars, miro_vars, tagger_vars, board_vars >>

\* one pass of the download loop: the image is saved under a fresh temp file
\* name and cached under it, or the download failed and the asset is skipped
search_images_download(s) ==
  /\ search_pc[s] = "downloading" /\ assets_left[s] # {}
  /\ LET asset == CHOOSE a \in assets_left[s] : \A b \in assets_left[s] : a <= b IN
     /\ assets_left' = [assets_left EXCEPT ![s] = @ \ { asset }]
     /\ \E ok \in BOOLEAN :
          IF ok
            THEN /\ search_results_cache' =
                      [k \in DOMAIN search_results_cache \cup { next_temp } |->
                         IF k = next_temp THEN asset ELSE search_results_cache[k]]
                 /\ image_paths' = [image_paths EXCEPT
                                      ![s] = @ \cup { [path |-> next_temp, asset |-> asset] }]
                 /\ next_temp' = next_temp + 1
            ELSE UNCHANGED << search_results_cache, image_paths, next_temp >>
  /\ UNCHANGED << search_pc, gallery, selected, searches >>
  /\ UNCHANGED << ingest_vars, backend_vars, norm_vars, miro_vars, tagger_vars, board_vars >>

\* the call returns its paths; the session's gallery shows them
search_images_return(s) ==
  /\ search_pc[s] = "downloading" /\ assets_left[s] = {}
  /\ search_pc' = [search_pc EXCEPT ![s] = "idle"]
  /\ gallery' = [gallery EXCEPT ![s] = image_paths[s]]
  /\ UNCHANGED << search_results_cache, assets_left, image_paths, next_temp, selected,
                  searches >>
  /\ UNCHANGED << ingest_vars, backend_vars, norm_vars, miro_vars, tagger_vars, board_vars >>

\* a click on an image of the session's gallery (shown: the asset the search
\* returned it for): look its path up in the cache
on_image_select(s) ==
  /\ \E shown \in gallery[s] :
       selected' = [session |-> s, path |-> shown.path, shown |-> shown.asset,
                    busy |-> search_pc[s] # "idle",
                    found |-> shown.path \in DOMAIN search_results_cache,
                    asset |-> IF shown.path \in DOMAIN search_results_cache
                                THEN { search_results_cache[shown.path] } ELSE {}]
  /\ UNCHANGED << search_results_cache, search_pc, assets_left, image_paths, gallery,
                  next_temp, searches >>
  /\ UNCHANGED << ingest_vars, backend_vars, norm_vars, miro_vars, tagger_vars, board_vars >>

\* ------------------------------------------------------ ingestion drivers
NoRet == [kind |-> "none", reason |-> "", total |-> 0, successful |-> 0, failed |-> 0]

Init ==
  /\ driver \in { "zip", "bulk", "csv" }
  /\ input \in (CASE driver = "csv" -> CsvInputs
                   [] driver = "bulk" -> ArchiveInputs \cup { FatalInput("nofile") }
                   [] OTHER -> ArchiveInputs)
  /\ pc = "idle"
  /\ runs = 0
  /\ tmpdirs = {}
  /\ listing = <<>>
  /\ total_rows = 0
  /\ idx = 1
  /\ successful = 0
  /\ failed = 0
  /\ errors = <<>>
  /\ rowlog = <<>>
  /\ ret = NoRet
  /\ store = {}
  /\ next_id = 1
  /\ history = <<>>
  /\ BackendOff /\ NormOff /\ MiroOff /\ TaggerOff /\ BoardOff /\ SearchOff

\* no driver runs
IngestOff ==
  /\ driver = "none"
  /\ input = FatalInput("nofile")
  /\ pc = "idle"
  /\ runs = 0
  /\ tmpdirs = {}
  /\ listing = <<>>
  /\ total_rows = 0
  /\ idx = 1
  /\ successful = 0
  /\ failed = 0
  /\ errors = <<>>
  /\ rowlog = <<>>
  /\ ret = NoRet
  /\ store = {}
  /\ next_id = 1
  /\ history = <<>>


\* ----------------------------------------------------------------- backend
\* variant: the endpoint skips a file name it already holds
upload_image_asset_dedup(st, id, filename) ==
  IF \E r \in st : r.original_filename = filename
    THEN st
    ELSE st \cup { [id |-> id, original_filename |-> filename, deleted_at |-> "null"] }

\* POST /api/upload on the success path: one new record per request
upload_image_asset(st, id, filename) ==
  st \cup { [id |-> id, original_filename |-> filename, deleted_at |-> "null"] }

\* ------------------------------------------------------------ row outcomes
\* what one pass of the row loop did
RowResult(row, i, direct, searched, resolved, posted, response, succ, fail, reason, header) ==
  [ row |-> i, name |-> row.reference_image_name, path |-> row.reference_image_path,
    direct |-> direct, searched |-> searched, resolved |-> resolved,
    posted |-> posted, response |-> response,
    succ |-> succ, fail |-> fail, reason |-> reason, header |-> header ]

\* variant: the status test is inverted
PostResult_inverted_status(row, i, direct, searched, resolved, o, header) ==
  CASE o = "ok"        -> RowResult(row, i, direct, searched, resolved, TRUE, "ok", 0, 1, "rejected", header)
    [] o = "rejected"  -> RowResult(row, i, direct, searched, resolved, TRUE, "rejected", 1, 0, "none", header)
    [] o = "exception" -> RowResult(row, i, direct, searched, resolved, TRUE, "exception", 0, 1, "exception", header)

\* outcome of the POST once the file is open: the scripts call
\* raise_for_status(), the UI tests status_code == 200
PostResult(row, i, direct, searched, resolved, o, header) ==
  CASE o = "ok"        -> RowResult(row, i, direct, searched, resolved, TRUE, "ok", 1, 0, "none", header)
    [] o = "rejected"  -> RowResult(row, i, direct, searched, resolved, TRUE, "rejected", 0, 1, "rejected", header)
    [] o = "exception" -> RowResult(row, i, direct, searched, resolved, TRUE, "exception", 0, 1, "exception", header)

\* variant: reading the response after the success was counted raises
zip_row_result_counts_twice(row, i, in, o) ==
  LET p == row.reference_image_path IN
  IF p.kind = "nan"
    THEN RowResult(row, i, NoPath, FALSE, NoPath, FALSE, "none", 0, 1, "exception", TRUE)
    ELSE LET resolved_path == Resolve(Join(temp_dir \o in.csv_dir, p)) IN
         IF ~Exists(Disk(in), resolved_path)
           THEN RowResult(row, i, resolved_path, FALSE, resolved_path, FALSE, "none", 0, 1, "not_found", TRUE)
           ELSE IF o = "ok"
                  THEN RowResult(row, i, resolved_path, FALSE, resolved_path, TRUE, "ok", 1, 1, "exception", TRUE)
                  ELSE PostResult(row, i, resolved_path, FALSE, resolved_path, o, TRUE)

\* zip_uploader: one pass of the loop body
zip_row_result(row, i, in, o) ==
  LET p == row.reference_image_path IN
  IF p.kind = "nan"
    THEN \* csv_dir / nan raises TypeError
         RowResult(row, i, NoPath, FALSE, NoPath, FALSE, "none", 0, 1, "exception", TRUE)
    ELSE LET resolved_path == Resolve(Join(temp_dir \o in.csv_dir, p)) IN
         IF ~Exists(Disk(in), resolved_path)
           THEN \* upload_image_with_metadata raises FileNotFoundError
                RowResult(row, i, resolved_path, FALSE, resolved_path, FALSE, "none", 0, 1, "not_found", TRUE)
           ELSE PostResult(row, i, resolved_path, FALSE, resolved_path, o, TRUE)

\* variant: the 'continue' after "Image not found" is missing, so open()
\* raises and the row is counted a second time
bulk_row_result_no_continue(row, i, in, ls, o) ==
  LET p == row.reference_image_path IN
  IF p.kind = "nan"
    THEN RowResult(row, i, NoPath, FALSE, NoPath, FALSE, "none", 0, 1, "exception", FALSE)
    ELSE LET direct == IF StartsWithEscape(p)
                         THEN Resolve(temp_dir \o StripEscape(p))
                         ELSE Resolve(Join(temp_dir \o in.csv_dir, p))
             found == Exists(Disk(in), direct)
             matches == rglob(Disk(in), search_dir, Name(p.segs))
             resolved_path == IF found THEN direct
                              ELSE IF DirExists(Disk(in), search_dir) /\ matches # {}
                                     THEN First(ls, matches) ELSE direct
         IN IF ~Exists(Disk(in), resolved_path)
              THEN RowResult(row, i, direct, ~found, resolved_path, FALSE, "none", 0, 2, "exception", TRUE)
              ELSE PostResult(row, i, direct, ~found, resolved_path, o, TRUE)

\* bulk_upload_tab: one pass of the loop body; ls is the directory order
bulk_row_result(row, i, in, ls, o) ==
  LET p == row.reference_image_path IN
  IF p.kind = "nan"
    THEN \* nan.startswith raises AttributeError, before the row header is logged
         RowResult(row, i, NoPath, FALSE, NoPath, FALSE, "none", 0, 1, "exception", FALSE)
    ELSE LET direct == IF StartsWithEscape(p)
                         THEN Resolve(temp_dir \o StripEscape(p))
                         ELSE Resolve(Join(temp_dir \o in.csv_dir, p))
             found == Exists(Disk(in), direct)
             matches == rglob(Disk(in), search_dir, Name(p.segs))
             resolved_path == IF found THEN direct
                              ELSE IF DirExists(Disk(in), search_dir) /\ matches # {}
                                     THEN First(ls, matches) ELSE direct
         IN IF ~Exists(Disk(in), resolved_path)
              THEN RowResult(row, i, direct, ~found, resolved_path, FALSE, "none", 0, 1, "not_found", TRUE)
              ELSE PostResult(row, i, direct, ~found, resolved_path, o, TRUE)

\* upload_csv_to_db: one pass of the loop body
csv_row_result(row, i, in, o) ==
  LET p == row.reference_image_path IN
  IF p.kind = "nan"
    THEN \* Path(nan) raises TypeError
         RowResult(row, i, NoPath, FALSE, NoPath, FALSE, "none", 0, 1, "exception", TRUE)
    ELSE LET actual_image_path == images_base_dir \o <<Name(p.segs)>> IN
         IF ~Exists(FlatDisk(in), actual_image_path)
           THEN RowResult(row, i, actual_image_path, FALSE, actual_image_path, FALSE, "none", 0, 1, "not_found", TRUE)
           ELSE PostResult(row, i, actual_image_path, FALSE, actual_image_path, o, TRUE)

\* a failure entry: the scripts append "Row i (name): reason"; the UI logs
\* the failure under the row's header when the header was already logged
ErrorEntry(res) ==
  [ row |-> IF res.header THEN res.row ELSE 0,
    name |-> IF res.header THEN res.name ELSE <<"none", 0>>,
    reason |-> res.reason ]

AfterRow(i, n) == IF i > n THEN "summarizing" ELSE "processing"

\* the effect of one pass on the counters, the log and the backend
ApplyRow(res) ==
  /\ successful' = successful + res.succ
  /\ failed' = failed + res.fail
  /\ errors' = IF res.fail > 0 THEN Append(errors, ErrorEntry(res)) ELSE errors
  /\ rowlog' = Append(rowlog, res)
  /\ idx' = idx + 1
  /\ pc' = AfterRow(idx + 1, total_rows)
  /\ IF res.response = "ok"
       THEN /\ store' = upload_image_asset(store, next_id, Name(res.resolved))
            /\ next_id' = next_id + 1
       ELSE UNCHANGED << store, next_id >>
  /\ UNCHANGED << driver, input, runs, tmpdirs, listing, total_rows, ret, history >>
  /\ UNCHANGED << backend_vars, norm_vars, miro_vars, tagger_vars, board_vars, ui_vars >>

Ret(kind, reason) ==
  [kind |-> kind, reason |-> reason,
   total |-> total_rows, successful |-> successful, failed |-> failed]

\* what the caller of a finished invocation can observe: the value handed
\* back, how many rows were processed and which files they resolved to,
\* and the number of records in the backend
\* the exit status main leaves the process with: upload_csv_to_db.main
\* returns 0 or 1 from the failed count and is wrapped in exit();
\* zip_uploader.main prints the summary and ends; an uncaught exception or
\* sys.exit(1) gives 1.  The UI callback is no process of its own (-1).
main_exit_code(r) ==
  CASE driver = "bulk" -> -1
    [] r.kind # "summary" -> 1
    [] driver = "csv" -> IF r.failed = 0 THEN 0 ELSE 1
    [] OTHER -> 0

HistEntry(r) ==
  [ ret |-> r, processed |-> Len(rowlog),
    resolved |-> [i \in 1..Len(rowlog) |-> rowlog[i].resolved],
    records |-> Cardinality(store),
    exit_code |-> main_exit_code(r) ]

\* the invocation hands r to its caller; its locals are gone
Finish(r) ==
  /\ ret' = r
  /\ runs' = runs + 1
  /\ history' = Append(history, HistEntry(r))
  /\ pc' = "idle"
  /\ total_rows' = 0
  /\ idx' = 1
  /\ successful' = 0
  /\ failed' = 0
  /\ errors' = <<>>
  /\ rowlog' = <<>>
  /\ listing' = <<>>
  /\ UNCHANGED << backend_vars, norm_vars, miro_vars, tagger_vars, board_vars, ui_vars >>

\* state of a fresh invocation
Begin(next) ==
  /\ pc' = next
  /\ total_rows' = 0
  /\ idx' = 1
  /\ successful' = 0
  /\ failed' = 0
  /\ errors' = <<>>
  /\ rowlog' = <<>>
  /\ ret' = NoRet
  /\ listing' = <<>>
  /\ UNCHANGED << backend_vars, norm_vars, miro_vars, tagger_vars, board_vars, ui_vars >>

\* an exception or early return leaves the try body with r pending
Abort(r) ==
  /\ ret' = r
  /\ pc' = "cleaning"
  /\ UNCHANGED << driver, input, runs, tmpdirs, listing, total_rows, idx, successful,
                  failed, errors, rowlog, store, next_id, history >>
  /\ UNCHANGED << backend_vars, norm_vars, miro_vars, tagger_vars, board_vars, ui_vars >>

Advance(next) ==
  /\ pc' = next
  /\ UNCHANGED << driver, input, runs, tmpdirs, listing, total_rows, idx, successful,
                  failed, errors, rowlog, ret, store, next_id, history >>
  /\ UNCHANGED << backend_vars, norm_vars, miro_vars, tagger_vars, board_vars, ui_vars >>

\* zip_ref.extractall(temp_dir): the tree is on disk, in some directory order
Extracted ==
  /\ \E ls \in Listings(input.files) : listing' = ls
  /\ pc' = "scanning"
  /\ UNCHANGED << driver, input, runs, tmpdirs, total_rows, idx, successful,
                  failed, errors, rowlog, ret, store, next_id, history >>
  /\ UNCHANGED << backend_vars, norm_vars, miro_vars, tagger_vars, board_vars, ui_vars >>

ReadRows ==
  /\ total_rows' = Len(input.rows)
  /\ pc' = AfterRow(1, Len(input.rows))
  /\ UNCHANGED << driver, input, runs, tmpdirs, listing, idx, successful,
                  failed, errors, rowlog, ret, store, next_id, history >>
  /\ UNCHANGED << backend_vars, norm_vars, miro_vars, tagger_vars, board_vars, ui_vars >>

\* ---------------------------------------------- zip_uploader.process_zip_upload
zip_start ==
  /\ driver = "zip" /\ pc = "idle" /\ runs < MaxRuns
  /\ tmpdirs' = tmpdirs \cup { runs + 1 }
  /\ Begin("extracting")
  /\ UNCHANGED << driver, input, runs, store, next_id, history >>

zip_extract ==
  /\ driver = "zip" /\ pc = "extracting"
  /\ IF input.kind = "corrupt"
       THEN Abort(Ret("raised", "bad zip file"))
       ELSE Extracted

\* variant: the missing CSV ends the invocation without the finally block
zip_find_csv_no_finally ==
  /\ driver = "zip" /\ pc = "scanning"
  /\ IF input.kind = "nocsv"
       THEN /\ Finish(Ret("raised", "no CSV found"))
            /\ UNCHANGED << driver, input, tmpdirs, store, next_id >>
       ELSE Advance("reading")

zip_find_csv ==
  /\ driver = "zip" /\ pc = "scanning"
  /\ IF input.kind = "nocsv"
       THEN Abort(Ret("raised", "no CSV found"))
       ELSE Advance("reading")

zip_read_csv ==
  /\ driver = "zip" /\ pc = "reading"
  /\ IF input.kind = "unparseable"
       THEN Abort(Ret("raised", "parse error"))
       ELSE ReadRows

zip_row ==
  /\ driver = "zip" /\ pc = "processing" /\ idx <= total_rows
  /\ \E o \in UploadOutcomes :
       ApplyRow(zip_row_result(input.rows[idx], idx, input, o))

zip_return ==
  /\ driver = "zip" /\ pc = "summarizing"
  /\ ret' = Ret("summary", "")
  /\ pc' = "cleaning"
  /\ UNCHANGED << driver, input, runs, tmpdirs, listing, total_rows, idx, successful,
                  failed, errors, rowlog, store, next_id, history >>
  /\ UNCHANGED << backend_vars, norm_vars, miro_vars, tagger_vars, board_vars, ui_vars >>

\* variant: the directory is removed at the end of the try body only
zip_finally_only_on_return ==
  /\ driver = "zip" /\ pc = "cleaning"
  /\ tmpdirs' = IF ret.kind = "raised" THEN tmpdirs ELSE tmpdirs \ { runs + 1 }
  /\ Finish(ret)
  /\ UNCHANGED << driver, input, store, next_id >>

\* finally: shutil.rmtree(temp_dir, ignore_errors=True)
zip_finally ==
  /\ driver = "zip" /\ pc = "cleaning"
  /\ tmpdirs' = tmpdirs \ { runs + 1 }
  /\ Finish(ret)
  /\ UNCHANGED << driver, input, store, next_id >>

\* ------------------------------------------ bulk_upload_tab.process_bulk_upload
bulk_no_file ==
  /\ driver = "bulk" /\ pc = "idle" /\ runs < MaxRuns
  /\ input.kind = "nofile"
  /\ Finish([kind |-> "message", reason |-> "no zip file selected",
             total |-> 0, successful |-> 0, failed |-> 0])
  /\ UNCHANGED << driver, input, tmpdirs, store, next_id >>

bulk_start ==
  /\ driver = "bulk" /\ pc = "idle" /\ runs < MaxRuns
  /\ input.kind # "nofile"
  /\ tmpdirs' = tmpdirs \cup { runs + 1 }
  /\ Begin("extracting")
  /\ UNCHANGED << driver, input, runs, store, next_id, history >>

bulk_extract ==
  /\ driver = "bulk" /\ pc = "extracting"
  /\ IF input.kind = "corrupt"
       THEN Abort(Ret("message", "error: bad zip file"))
       ELSE Extracted

bulk_find_csv ==
  /\ driver = "bulk" /\ pc = "scanning"
  /\ IF input.kind = "nocsv"
       THEN Abort(Ret("message", "no CSV found"))
       ELSE Advance("reading")

bulk_read_csv ==
  /\ driver = "bulk" /\ pc = "reading"
  /\ IF input.kind = "unparseable"
       THEN Abort(Ret("message", "error: parse error"))
       ELSE ReadRows

\* variant: the per-row handler is missing, a failing row ends the batch
bulk_row_abort_on_failure ==
  /\ driver = "bulk" /\ pc = "processing" /\ idx <= total_rows
  /\ \E o \in UploadOutcomes :
       LET res == bulk_row_result(input.rows[idx], idx, input, listing, o) IN
       IF res.fail > 0
         THEN Abort(Ret("message", "error: row failed"))
         ELSE ApplyRow(res)

bulk_row ==
  /\ driver = "bulk" /\ pc = "processing" /\ idx <= total_rows
  /\ \E o \in UploadOutcomes :
       ApplyRow(bulk_row_result(input.rows[idx], idx, input, listing, o))

\* the final summary computes successful/total_rows*100
bulk_summary ==
  /\ driver = "bulk" /\ pc = "summarizing"
  /\ ret' = IF total_rows = 0
              THEN Ret("message", "error: division by zero")
              ELSE Ret("summary", "")
  /\ pc' = "cleaning"
  /\ UNCHANGED << driver, input, runs, tmpdirs, listing, total_rows, idx, successful,
                  failed, errors, rowlog, store, next_id, history >>
  /\ UNCHANGED << backend_vars, norm_vars, miro_vars, tagger_vars, board_vars, ui_vars >>

\* finally: shutil.rmtree(temp_dir) if it exists
bulk_finally ==
  /\ driver = "bulk" /\ pc = "cleaning"
  /\ tmpdirs' = tmpdirs \ { runs + 1 }
  /\ Finish(ret)
  /\ UNCHANGED << driver, input, store, next_id >>

\* ----------------------------- upload_csv_to_db.main / process_csv_direct_upload
\* main: health check, then the existence checks of process_csv_direct_upload
csv_start ==
  /\ driver = "csv" /\ pc = "idle" /\ runs < MaxRuns
  /\ CASE input.kind = "backend_down" ->
            Finish([kind |-> "exit", reason |-> "cannot connect to backend",
                    total |-> 0, successful |-> 0, failed |-> 0])
       [] input.kind = "nocsv" ->
            Finish([kind |-> "raised", reason |-> "CSV file not found",
                    total |-> 0, successful |-> 0, failed |-> 0])
       [] OTHER ->
            /\ Begin("reading")
            /\ UNCHANGED << runs, history >>
  /\ UNCHANGED << driver, input, tmpdirs, store, next_id >>

csv_read_csv ==
  /\ driver = "csv" /\ pc = "reading"
  /\ IF input.kind = "unparseable"
       THEN /\ Finish(Ret("raised", "parse error"))
            /\ UNCHANGED << driver, input, tmpdirs, store, next_id >>
       ELSE ReadRows

csv_row ==
  /\ driver = "csv" /\ pc = "processing" /\ idx <= total_rows
  /\ \E o \in UploadOutcomes :
       ApplyRow(csv_row_result(input.rows[idx], idx, input, o))

\* main prints the summary: successful/total*100, then returns the exit code
csv_main_summary ==
  /\ driver = "csv" /\ pc = "summarizing"
  /\ Finish(IF total_rows = 0
              THEN Ret("raised", "division by zero")
              ELSE Ret("summary", ""))
  /\ UNCHANGED << driver, input, tmpdirs, store, next_id >>

\* ------------------------------------------------------------ specification
Next ==
  \/ zip_start \/ zip_extract \/ zip_find_csv \/ zip_read_csv
  \/ zip_row \/ zip_return \/ zip_finally
  \/ bulk_no_file \/ bulk_start \/ bulk_extract \/ bulk_find_csv
  \/ bulk_read_csv \/ bulk_row \/ bulk_summary \/ bulk_finally
  \/ csv_start \/ csv_read_csv \/ csv_row \/ csv_main_summary

Spec == Init /\ [][Next]_vars

\* the backend under single requests, in either storage mode
InitBackend ==
  /\ USE_LOCAL_STORAGE \in BOOLEAN
  /\ addressing_style \in (IF USE_LOCAL_STORAGE THEN { "virtual" } ELSE { "virtual", "path" })
  /\ image_assets = {}
  /\ local_files = {}
  /\ s3_objects = {}
  /\ clock = 0
  /\ http_response = NoResponse
  /\ IngestOff /\ NormOff /\ MiroOff /\ TaggerOff /\ BoardOff /\ SearchOff

NextBackend ==
  \/ api_upload \/ search_image_assets \/ download_image_asset
  \/ get_image_asset \/ delete_image_asset \/ get_unique_actions
  \/ send_response \/ tick

SpecBackend == InitBackend /\ [][NextBackend]_vars

\* one CSV row read by one of the three loops
InitNorm ==
  /\ norm_driver \in { "zip", "bulk", "csv" }
  /\ cells \in [Fields -> { MissingColumn, [kind |-> "nan", text |-> <<>>],
                            PyStr(<< " " >>), PyStr(<< " ", "w", " " >>),
                            PyStr(<< "w" >>) }]
  /\ sent = NotSent
  /\ norm_record = NoRecord
  /\ IngestOff /\ BackendOff /\ MiroOff /\ TaggerOff /\ BoardOff /\ SearchOff

NextNorm == zip_read_row \/ bulk_read_row \/ csv_read_row \/ norm_upload_image_asset

SpecNorm == InitNorm /\ [][NextNorm]_vars

\* asyncio.gather over one limited_upload task per image
InitMiro ==
  /\ max_concurrent_uploads \in 1..MaxPermits
  /\ semaphore = max_concurrent_uploads
  /\ \E n \in Images : task_pc = [i \in Images |-> IF i <= n THEN "gathered" ELSE "done"]
  /\ stats = NoStats
  /\ IngestOff /\ BackendOff /\ NormOff /\ TaggerOff /\ BoardOff /\ SearchOff

NextMiro ==
  \E i \in Images :
    \/ limited_upload_acquire(i)
    \/ upload_image_to_s3_async_start(i)
    \/ upload_image_to_s3_async_finish(i)
    \/ limited_upload_release(i)

SpecMiro == InitMiro /\ [][NextMiro]_vars

\* the tagging script: process_image called over and over on one CSV, as
\* main and process_all_images call it (one parse mode, one num_requests)
InitTagger ==
  /\ parse_mode \in { "tags", "description" }
  /\ num_requests \in 1..MaxRequests
  /\ csv_file = <<>>
  /\ pi_pc = "idle"
  /\ pi_image = [dir |-> <<>>, stem |-> "", suffix |-> ""]
  /\ request_num = 1
  /\ new_rows = <<>>
  /\ pi_ret = FALSE
  /\ api_requests = 0
  /\ api_raised = FALSE
  /\ csv_before = <<>>
  /\ calls = 0
  /\ IngestOff /\ BackendOff /\ NormOff /\ MiroOff /\ BoardOff /\ SearchOff

NextTagger ==
  \/ process_image_begin \/ process_image_request_raises
  \/ process_image_description \/ process_image_tags
  \/ process_image_return

SpecTagger == InitTagger /\ [][NextTagger]_vars

\* one MiroCSVUploader over the CSVs batch_process_csvs hands it
InitBoard ==
  /\ board_pc = "idle"
  /\ board_layout = "grid"
  /\ organized_data = <<>>
  /\ board_created = FALSE
  /\ attempted = {}
  /\ csv_stats = BoardStats0
  /\ board_ret = FALSE
  /\ boards = 0
  /\ IngestOff /\ BackendOff /\ NormOff /\ MiroOff /\ TaggerOff /\ SearchOff

NextBoard ==
  \/ create_board_from_csv \/ board_limited_upload
  \/ upload_layout_completed \/ batch_process_csvs_next

SpecBoard == InitBoard /\ [][NextBoard]_vars

\* two browser sessions on one UI process
InitSearch ==
  /\ search_results_cache = << >>
  /\ search_pc = [s \in Sessions |-> "idle"]
  /\ assets_left = [s \in Sessions |-> {}]
  /\ image_paths = [s \in Sessions |-> {}]
  /\ gallery = [s \in Sessions |-> {}]
  /\ next_temp = 1
  /\ selected = NoSelection
  /\ searches = 0
  /\ IngestOff /\ BackendOff /\ NormOff /\ MiroOff /\ TaggerOff /\ BoardOff

NextSearch ==
  \E s \in Sessions :
    \/ search_images_begin(s)
    \/ search_images_download(s)
    \/ search_images_return(s)
    \/ on_image_select(s)

SpecSearch == InitSearch /\ [][NextSearch]_vars


\* ------------------------------------------------------------------ claims
RECURSIVE SumSucc(_)
SumSucc(log) == IF log = <<>> THEN 0 ELSE Head(log).succ + SumSucc(Tail(log))

RECURSIVE SumFail(_)
SumFail(log) == IF log = <<>> THEN 0 ELSE Head(log).fail + SumFail(Tail(log))

ErrorsOfRow(i) == { k \in 1..Len(errors) : errors[k].row = i }

ArchiveDriver == driver \in { "zip", "bulk" }

\* C1: when the row loop of any of the three drivers has finished, every CSV
\* row has produced exactly one outcome: successful + failed = total, each
\* row was counted once, and never both as a success and as a failure.
Thm_C1 ==
  pc = "summarizing" =>
    /\ successful + failed = total_rows
    /\ Len(rowlog) = total_rows
    /\ \A i \in 1..Len(rowlog) :
         /\ rowlog[i].row = i
         /\ rowlog[i].succ + rowlog[i].fail = 1
    /\ successful = SumSucc(rowlog)
    /\ failed = SumFail(rowlog)

Wit_C1 ==
  /\ pc = "summarizing"
  /\ total_rows = 2
  /\ successful = 1
  /\ failed = 1

\* C2: a row-level failure never aborts the batch: while rows remain the
\* driver is still in the row loop at the next row, rows are processed in
\* file order and each processed row has its own outcome.
Thm_C2 ==
  /\ Len(rowlog) < total_rows => (pc = "processing" /\ idx = Len(rowlog) + 1)
  /\ \A i \in 1..Len(rowlog) :
       /\ rowlog[i].row = i
       /\ rowlog[i].succ + rowlog[i].fail >= 1
  /\ \A k \in 1..Len(history) :
       history[k].ret.kind = "summary" =>
         history[k].processed = Len(input.rows)

Wit_C2 ==
  /\ ArchiveDriver
  /\ Len(rowlog) = 2
  /\ rowlog[1].fail = 1
  /\ rowlog[1].reason = "exception"
  /\ rowlog[2].succ = 1

\* C3: once an invocation of an archive driver has returned or raised, by
\* success, partial failure or fatal abort, the extraction directory it
\* created no longer exists.
Thm_C3 ==
  /\ \A k \in 1..runs : k \notin tmpdirs
  /\ pc = "idle" => tmpdirs = {}

Wit_C3 ==
  /\ driver = "zip"
  /\ pc = "idle"
  /\ runs = 1
  /\ history[1].ret.kind = "raised"
  /\ tmpdirs = {}

\* a declared path that none of the three strategies resolves
UnresolvedByAll(in, p) ==
  /\ p.kind # "nan"
  /\ ~(StartsWithEscape(p) /\ Exists(Disk(in), Resolve(temp_dir \o StripEscape(p))))
  /\ ~Exists(Disk(in), Resolve(Join(temp_dir \o in.csv_dir, p)))
  /\ rglob(Disk(in), search_dir, Name(p.segs)) = {}

\* C4: a row whose declared path no resolution strategy resolves gets exactly
\* one failure entry saying 'not found', is never uploaded, and the batch
\* goes on with the next row.
Thm_C4 ==
  ArchiveDriver =>
    \A i \in 1..Len(rowlog) :
      UnresolvedByAll(input, rowlog[i].path) =>
        /\ rowlog[i].fail = 1
        /\ rowlog[i].succ = 0
        /\ rowlog[i].reason = "not_found"
        /\ ~rowlog[i].posted
        /\ Cardinality(ErrorsOfRow(i)) = 1
        /\ \A k \in ErrorsOfRow(i) : errors[k].reason = "not_found"
        /\ (i < total_rows /\ Len(rowlog) = i) => (pc = "processing" /\ idx = i + 1)

Wit_C4 ==
  /\ ArchiveDriver
  /\ Len(rowlog) = 2
  /\ UnresolvedByAll(input, rowlog[1].path)
  /\ rowlog[1].reason = "not_found"
  /\ rowlog[2].posted

\* C5: a row whose file was resolved and whose upload the backend accepted
\* adds exactly one to the successful count and records no failure.
Thm_C5 ==
  /\ successful = SumSucc(rowlog)
  /\ \A i \in 1..Len(rowlog) :
       rowlog[i].response = "ok" =>
         /\ Exists(IF driver = "csv" THEN FlatDisk(input) ELSE Disk(input), rowlog[i].resolved)
         /\ rowlog[i].succ = 1
         /\ rowlog[i].fail = 0
         /\ ErrorsOfRow(i) = {}

Wit_C5 ==
  /\ ArchiveDriver
  /\ Len(rowlog) = 1
  /\ rowlog[1].response = "ok"
  /\ successful = 1
  /\ errors = <<>>

\* C6: a declared path that begins with a parent-directory escape is resolved
\* against the extraction root with exactly one leading escape stripped,
\* wherever the CSV sits, never relative to the CSV's directory.
Cex_C6 ==
  ArchiveDriver =>
    \A i \in 1..Len(rowlog) :
      StartsWithEscape(rowlog[i].path) =>
        rowlog[i].direct = Resolve(temp_dir \o StripEscape(rowlog[i].path))

\* the directly resolved path of section 4.1: parent-escape rule, otherwise
\* CSV-directory rule
DirectPath(in, p) ==
  IF StartsWithEscape(p) THEN Resolve(temp_dir \o StripEscape(p))
  ELSE Resolve(Join(temp_dir \o in.csv_dir, p))

\* C7: resolution is ordered, first match wins: an existing direct path is
\* used without the recursive search; otherwise the base name is searched
\* under the image subdirectory; with several files of that name the chosen
\* match is the same on every run over the same archive.
Cex_C7 ==
  ArchiveDriver =>
    /\ \A i \in 1..Len(rowlog) :
         rowlog[i].path.kind # "nan" =>
           LET d == DirectPath(input, rowlog[i].path)
               ms == rglob(Disk(input), search_dir, Name(rowlog[i].path.segs))
           IN /\ Exists(Disk(input), d) => (rowlog[i].resolved = d /\ ~rowlog[i].searched)
              /\ (~Exists(Disk(input), d) /\ ms # {}) => rowlog[i].resolved \in ms
    /\ \A j, k \in 1..Len(history) :
         history[j].resolved = history[k].resolved

\* C8: a CSV with a header and no data rows is not an error: the driver
\* finishes normally with total = successful = failed = 0, in the archive
\* driver, the UI driver and the CSV script with its printed summary.
Cex_C8 ==
  \A k \in 1..Len(history) :
    (input.kind = "ok" /\ input.rows = <<>>) =>
      /\ history[k].ret.kind = "summary"
      /\ history[k].ret.total = 0
      /\ history[k].ret.successful = 0
      /\ history[k].ret.failed = 0

\* C9: on a batch-level fatal condition an archive driver processes no row,
\* uploads nothing, removes the temporary directory and returns a summary
\* stating the reason ('no CSV found' for a missing CSV) instead of
\* propagating an exception.
Cex_C9 ==
  ArchiveDriver =>
    \A k \in 1..Len(history) :
      input.kind \in { "corrupt", "nocsv", "unparseable" } =>
        /\ history[k].processed = 0
        /\ history[k].records = 0
        /\ k \notin tmpdirs
        /\ history[k].ret.kind # "raised"
        /\ input.kind = "nocsv" => history[k].ret.reason = "no CSV found"

\* every row of the CSV was resolved and its upload accepted
AllRowsUploaded(h) ==
  /\ h.processed = Len(input.rows)
  /\ h.ret.successful = Len(input.rows)

StorageHolds(asset) ==
  \/ \E path \in asset.local_file_path : path \in local_files
  \/ \E url \in asset.s3_url : url.key \in s3_objects

HardDeleteAnswered ==
  /\ http_response.op = "delete"
  /\ http_response.hard_delete
  /\ http_response.addressed # None

\* C11: a hard-delete request for an existing asset ends, in local and in
\* object storage mode, with the record gone from the table and its file or
\* object gone from the store.
Cex_C11 ==
  HardDeleteAnswered =>
    \A asset \in http_response.addressed :
      /\ Lookup(image_assets, asset.id) = {}
      /\ ~StorageHolds(asset)

\* C12: every record in the table has exactly one of s3_url and
\* local_file_path set: local_file_path when local storage is configured,
\* s3_url otherwise.
Thm_C12 ==
  \A r \in image_assets :
    IF USE_LOCAL_STORAGE
      THEN r.local_file_path # None /\ r.s3_url = None
      ELSE r.s3_url # None /\ r.local_file_path = None

Wit_C12 ==
  /\ ~USE_LOCAL_STORAGE
  /\ http_response.op = "upload" /\ http_response.status = 200
  /\ http_response.asset \subseteq image_assets
  /\ http_response.asset # None

Range(seq) == { seq[k] : k \in 1..Len(seq) }

\* the filters of a search other than the one on deleted_at
OtherFiltersMatch(r, q) == q.angle_1 # "" => r.angle_1 = Some(q.angle_1)

SearchAnswered == http_response.op = "search"

\* a soft-deleted row is left out of the results and the total of a search
\* with include_deleted = false, and GET /api/assets/{id} still returns it
HiddenButKept(r) ==
  /\ (SearchAnswered /\ ~http_response.query.include_deleted) =>
       /\ r \notin Range(http_response.results)
       /\ http_response.total =
            Cardinality({ x \in image_assets :
                            x.deleted_at = None /\ OtherFiltersMatch(x, http_response.query) })
  /\ (http_response.op = "get" /\ http_response.asset_id = r.id) =>
       http_response.status = 200 /\ http_response.asset = { r }

\* C13 as stated: after any uploads and deletes a soft-deleted record is
\* hidden from a search with include_deleted = false, and is returned by
\* get-by-id and by every search with include_deleted = true whose other
\* filters it matches.
Cex_C13 ==
  \A r \in image_assets :
    r.deleted_at # None =>
      /\ HiddenButKept(r)
      /\ (SearchAnswered /\ http_response.query.include_deleted
            /\ OtherFiltersMatch(r, http_response.query)) =>
           r \in Range(http_response.results)

\* C13 amended: ... a search with include_deleted = true whose other filters
\* it matches counts the record in its total, and returns it when the page
\* asked for holds all matches (offset 0 and limit at least the total).
Thm_C13 ==
  \A r \in image_assets :
    r.deleted_at # None =>
      /\ HiddenButKept(r)
      /\ (SearchAnswered /\ http_response.query.include_deleted
            /\ OtherFiltersMatch(r, http_response.query)) =>
           /\ http_response.total =
                Cardinality({ x \in image_assets : OtherFiltersMatch(x, http_response.query) })
           /\ (http_response.query.offset = 0
                 /\ http_response.query.limit >= http_response.total) =>
                r \in Range(http_response.results)

Wit_C13 ==
  /\ SearchAnswered
  /\ http_response.query.include_deleted
  /\ http_response.query.offset = 0
  /\ \E r \in Range(http_response.results) : r.deleted_at # None
  /\ \E r \in Range(http_response.results) : r.deleted_at = None

\* the step changed or removed r by a delete request addressed to it
ChangedByDelete(r) ==
  /\ http_response'.op = "delete"
  /\ http_response'.asset_id = r.id
  /\ http_response'.status = 200
  /\ IF http_response'.hard_delete
       THEN Lookup(image_assets', r.id) = {}
       ELSE \E t \in 0..MaxClock :
              Lookup(image_assets', r.id) = { [r EXCEPT !.deleted_at = Some(t)] }

\* C14: an existing record is changed only by a delete addressed to it: a
\* soft delete changes its deleted_at and nothing else, a hard delete
\* removes it, and upload, search, get, download and metadata/actions
\* leave every existing record as it was.
Thm_C14 ==
  [][ /\ \A r \in image_assets : r \in image_assets' \/ ChangedByDelete(r)
      /\ http_response'.op \in { "upload", "search", "get", "download", "actions" }
           => image_assets \subseteq image_assets' ]_vars

Wit_C14 ==
  /\ http_response.op = "delete" /\ http_response.status = 200
  /\ ~http_response.hard_delete
  /\ \E r \in image_assets : r.deleted_at # None
  /\ \E r \in image_assets : r.deleted_at = None


\* ------------------------------------------------------- normaliser claims
\* a whitespace-trimmed, non-empty string that does not spell NaN
TrimmedText(v) ==
  /\ v.kind = "str"
  /\ v.text # <<>>
  /\ strip(v.text) = v.text
  /\ v.text # << "n", "a", "n" >>

\* the cell is missing, NaN, empty or whitespace only
BlankCell(cell) == cell.kind \in { "missing", "nan" } \/ strip(cell.text) = <<>>

\* C15: for every raw CSV row each optional metadata field handed to the
\* upload (two angles, three actions, prompt) is a trimmed non-empty string
\* or absent, and a blank, missing or NaN cell always becomes absent.
Cex_C15 ==
  sent.done =>
    \A f \in Fields :
      /\ sent.fields[f] = Absent \/ TrimmedText(sent.fields[f])
      /\ BlankCell(cells[f]) => sent.fields[f] = Absent


\* -------------------------------------------------- more ingestion claims
\* C16: the exit code of a standalone batch script (upload_csv_to_db.main,
\* zip_uploader.main) is 0 when the batch finished with no failed row, and
\* non-zero whenever at least one row failed.
Cex_C16 ==
  driver \in { "zip", "csv" } =>
    \A k \in 1..Len(history) :
      /\ (history[k].ret.kind = "summary" /\ history[k].ret.failed = 0)
           => history[k].exit_code = 0
      /\ history[k].ret.failed >= 1 => history[k].exit_code # 0


\* C17: the failure entries of an archive batch enumerate its failed rows:
\* as many entries as failed rows, in CSV row order, each naming its row by
\* 1-based number and declared reference name and giving a reason, whatever
\* made the row fail.
Cex_C17 ==
  ArchiveDriver =>
    /\ Len(errors) = failed
    /\ \A k \in 1..Len(errors) :
         /\ errors[k].row \in 1..Len(rowlog)
         /\ rowlog[errors[k].row].fail = 1
         /\ errors[k].name = input.rows[errors[k].row].reference_image_name
         /\ errors[k].reason # ""
    /\ \A k, l \in 1..Len(errors) : k < l => errors[k].row < errors[l].row


\* C18: every file an archive driver reads and uploads for a row lies
\* inside the extraction root of the batch, whatever path the row declares.
Cex_C18 ==
  ArchiveDriver =>
    \A i \in 1..Len(rowlog) :
      rowlog[i].posted => IsPrefix(temp_dir, rowlog[i].resolved)


\* the phase of the batch a position belongs to; reading the CSV that was
\* found belongs to Scanning
Phase(p) ==
  CASE p = "extracting" -> 1
    [] p \in { "scanning", "reading" } -> 2
    [] p = "processing" -> 3
    [] p = "summarizing" -> 4
    [] p = "cleaning" -> 5
    [] OTHER -> 0

\* C19: an archive batch goes through Extracting, Scanning, Processing,
\* Summarizing, CleaningUp in this order and never back (a CSV without rows
\* passes Processing without a step); only an unrecoverable condition
\* jumps from its phase straight to CleaningUp, a failed row never does,
\* and no execution ends without passing CleaningUp.
Thm_C19 ==
  [][ ArchiveDriver =>
        /\ pc = "idle" => pc' \in { "idle", "extracting" }
        /\ (pc # "idle" /\ pc' # "idle") =>
             /\ Phase(pc') >= Phase(pc)
             /\ \/ Phase(pc') \in { Phase(pc), Phase(pc) + 1 }
                \/ Phase(pc) = 2 /\ Phase(pc') = 4 /\ Len(input.rows) = 0
                \/ Phase(pc') = 5 /\ input.kind # "ok"
                                  /\ ret'.kind \in { "raised", "message" }
        /\ pc = "processing" => pc' \in { "processing", "summarizing" }
        /\ (pc # "idle" /\ pc' = "idle") => pc = "cleaning" ]_vars

Wit_C19 ==
  /\ ArchiveDriver
  /\ pc = "cleaning"
  /\ ret.kind = "summary"
  /\ Len(rowlog) = 2
  /\ failed >= 1


\* ------------------------------------------------------- whiteboard claims
\* tasks inside the "async with semaphore" block
Holders == { i \in Images : task_pc[i] \in { "holding", "uploading", "uploaded", "failed" } }

Cex_C22 ==
  [][ (http_response'.op = "upload" /\ http_response'.status # 200) =>
        /\ http_response'.status = 500
        /\ image_assets' = image_assets
        /\ local_files' = local_files
        /\ s3_objects' = s3_objects ]_vars

\* C23: download answers 404 for an id without record and 410 for a
\* soft-deleted record; only a live record gets its local file (local mode)
\* or a redirect to its URL; no download changes a record.
Thm_C23 ==
  [][ http_response'.op = "download" =>
        LET found == Lookup(image_assets, http_response'.asset_id) IN
        /\ image_assets' = image_assets
        /\ found = {} => http_response'.status = 404
        /\ \A r \in found :
             /\ r.deleted_at # None => http_response'.status = 410
             /\ r.deleted_at = None =>
                  http_response'.status = IF USE_LOCAL_STORAGE THEN 200 ELSE 307
        /\ http_response'.status \in { 200, 307 } =>
             \E r \in found : r.deleted_at = None ]_vars

Wit_C23 ==
  /\ http_response.op = "download"
  /\ http_response.status = 410
  /\ \E r \in image_assets : r.id = http_response.asset_id /\ r.deleted_at # None

\* what a record points to in the file store
Locator(r) == r.local_file_path \cup { url.key : url \in r.s3_url }

\* C27: any two records have different storage locators, so no upload
\* overwrites the bytes of an earlier record, also for two uploads of the
\* same file name within one clock second.
Cex_C27 ==
  \A r1, r2 \in image_assets : r1.id # r2.id => Locator(r1) # Locator(r2)

\* C30: a soft delete is never undone: from a state where a record has
\* deleted_at set, a step either keeps the record with deleted_at set and
\* its other fields as they were, or removes it by a hard delete.
Thm_C30 ==
  [][ \A r \in image_assets :
        r.deleted_at # None =>
          \/ \E r2 \in image_assets' :
               /\ r2.id = r.id
               /\ r2.deleted_at # None
               /\ [r2 EXCEPT !.deleted_at = r.deleted_at] = r
          \/ /\ Lookup(image_assets', r.id) = {}
             /\ http_response'.op = "delete"
             /\ http_response'.hard_delete
             /\ http_response'.asset_id = r.id ]_vars

\* a soft-deleted record is still there, deleted, after a later upload
Wit_C30 ==
  /\ http_response.op = "upload" /\ http_response.status = 200
  /\ \E r \in image_assets :
       r.deleted_at # None /\ r.id < http_response.asset_id

\* ------------------------------------------------- claims on process_image
\* the CSV holds a row for the image
Recorded(rows, p) ==
  \E k \in 1..Len(rows) :
    IF parse_mode = "description"
      THEN rows[k].reference_image = << p.stem, p.suffix >>
      ELSE rows[k].reference_image_path = p

\* C21 (as stated): a process_image call for an image that an earlier call
\* recorded in the CSV sends no vision request, leaves the CSV as it found
\* it and returns True, in every parse mode and for every num_requests
Cex_C21 ==
  (pi_pc = "returned" /\ Recorded(csv_before, pi_image)) =>
    /\ api_requests = 0
    /\ csv_file = csv_before
    /\ pi_ret = TRUE

\* C24: in tags mode a call on an image the CSV does not hold is all or
\* nothing: when every one of the num_requests requests returned, exactly
\* num_requests rows were appended, named <stem>_v1..<stem>_vN (<stem> for a
\* single request) and carrying the image's path, and the call returned
\* True; when a request raised, the CSV is unchanged and the call returned
\* False
Thm_C24 ==
  (pi_pc = "returned" /\ parse_mode = "tags" /\ ~Recorded(csv_before, pi_image)) =>
    IF api_raised
      THEN csv_file = csv_before /\ pi_ret = FALSE
      ELSE /\ pi_ret = TRUE
           /\ api_requests = num_requests
           /\ Len(csv_file) = Len(csv_before) + num_requests
           /\ SubSeq(csv_file, 1, Len(csv_before)) = csv_before
           /\ \A k \in 1..num_requests :
                LET row == csv_file[Len(csv_before) + k] IN
                /\ row.reference_image_path = pi_image
                /\ row.reference_image_name =
                     IF num_requests = 1 THEN << pi_image.stem >>
                     ELSE << pi_image.stem, "_v", k >>

\* a call with two requests added its two rows to a CSV that held another image
Wit_C24 ==
  /\ pi_pc = "returned" /\ parse_mode = "tags" /\ num_requests = 2
  /\ csv_before # <<>> /\ ~Recorded(csv_before, pi_image)
  /\ ~api_raised /\ pi_ret
  /\ Len(csv_file) = Len(csv_before) + 2

\* ----------------------------------------- claims on create_board_from_csv
\* C25 (as stated): for each of the layouts grid, by_angle and by_action, a
\* call with at least one organised image and a created board hands every
\* organised image to an upload and returns True
Cex_C25 ==
  (/\ board_pc = "returned"
   /\ board_layout \in { "grid", "by_angle", "by_action" }
   /\ organized_data # <<>> /\ board_created) =>
    /\ board_ret = TRUE
    /\ attempted = 1..Len(organized_data)

\* C29 (as stated): on one uploader the counters stay consistent over any
\* sequence of create_board_from_csv calls: uploaded_images + failed_images
\* never exceeds total_images
Cex_C29 ==
  csv_stats.uploaded_images + csv_stats.failed_images <= csv_stats.total_images

\* --------------------------------------------------- claims on the search tab
\* C28 (as stated): when a session that has no search running selects a path
\* its most recent completed search returned, the cache holds that path and
\* maps it to the asset that search returned, whatever another session did
\* in between
Cex_C28 ==
  (selected.session \in Sessions /\ ~selected.busy) =>
    /\ selected.found
    /\ selected.asset = { selected.shown }

\* ------------------------------------------- claims on the stored metadata
\* C26 (as stated): for each of the three drivers, the record a row's upload
\* created carries the row's metadata: angle_1, angle_2 and every action
\* tag the driver sent are stored as sent, never null
Cex_C26 ==
  norm_record.done =>
    \A f \in Fields \ { "prompt" } :
      sent.fields[f] # Absent => norm_record.fields[f] = sent.fields[f]

====
